---- MODULE Spec2Model ----
(***************************************************************************)
(* A state-machine model of the useSoundEffect hook                        *)
(* (src/utils/Hooks/useSoundEffect.ts) and of the UserCard component       *)
(* (src/app/[serverId]/components/SideBar/UserCard.tsx).                   *)
(*                                                                         *)
(* Volumes are fixed-point numbers in units of 1/VolUnit, so the literal 1 *)
(* of Math.min(1, ...) is VolUnit.  React commits a state update before    *)
(* the next event is handled, so every action ends with the committed      *)
(* state; what a callback closed over at an earlier render is kept in the  *)
(* closure records (randomCl, a timer's cl).                               *)
(***************************************************************************)
EXTENDS Integers, Sequences, FiniteSets, TLC

VARIABLES props, hook, phase, lastOp, adjusted, card

vars == <<props, hook, phase, lastOp, adjusted, card>>

-----------------------------------------------------------------------------
(* Bounds of the model *)

MaxAudio == 2
MaxTimer == 2
MaxUrl == 2
MaxInterval == 3
RandDen == 3

(* full volume, the literal 1 of Math.min(1, Math.max(0, v)) *)
VolUnit == 2

Null == 0

AudioIds == 1..MaxAudio
TimerIds == 1..MaxTimer
Urls == 1..MaxUrl
Intervals == 1..MaxInterval
RandomDraws == 0..(RandDen - 1)

-----------------------------------------------------------------------------
(* Math *)

Min(a, b) == IF a < b THEN a ELSE b

Max(a, b) == IF a > b THEN a ELSE b

Clamp(v) == Min(VolUnit, Max(0, v))

-----------------------------------------------------------------------------
(* Options and settings store *)

NoEntry == [present |-> FALSE, volume |-> 0, isMuted |-> FALSE]

OptionVolumes == {-1, 1}

StoreVolumes == {1, VolUnit + 1}

Entries == {NoEntry} \cup
    [present : {TRUE}, volume : StoreVolumes, isMuted : BOOLEAN]

PropsSet == { p \in [soundUrl : Urls, volume : OptionVolumes, preload : BOOLEAN,
                     loop : BOOLEAN, playRandomly : BOOLEAN,
                     minInterval : Intervals, maxInterval : Intervals,
                     autoplay : BOOLEAN, settingsKey : BOOLEAN,
                     entry : Entries] :
              (~p.settingsKey) => p.entry = NoEntry }

StoreVolume(p) ==
    IF p.settingsKey /\ p.entry.present THEN p.entry.volume ELSE p.volume

IsMuted(p) ==
    IF p.settingsKey /\ p.entry.present THEN p.entry.isMuted ELSE FALSE

Volume(p) == IF IsMuted(p) THEN 0 ELSE StoreVolume(p)

-----------------------------------------------------------------------------
(* The browser's audio elements and timers                                 *)
(*                                                                         *)
(* st of an audio element:                                                 *)
(*   "free"      no such element (never created, or unreachable and idle)  *)
(*   "idle"      created, play() never called                              *)
(*   "starting"  play() called, its promise not settled yet                *)
(*   "playing"   the promise resolved, sound is coming out                 *)
(*   "aborted"   paused while starting: the promise will reject            *)
(*   "paused"    paused after playing                                      *)
(*   "failed"    the promise rejected, the element never played            *)
(*   "ended"     played to its end                                         *)

FreeAudio == [st |-> "free", volume |-> 0, loop |-> FALSE]

NewAudio == [st |-> "idle", volume |-> VolUnit, loop |-> FALSE]

FreeTimer == [st |-> "free", delay |-> 0,
              cl |-> [vol |-> 0, loop |-> FALSE, min |-> 0, max |-> 0]]

Sounding == {"starting", "playing"}

PromisePending == {"starting", "aborted"}

AudioPause(el) ==
    CASE el.st = "starting" -> [el EXCEPT !.st = "aborted"]
      [] el.st = "playing" -> [el EXCEPT !.st = "paused"]
      [] OTHER -> el

FreeAudioIds(h) == { a \in AudioIds : h.audios[a].st = "free" }

FreeTimerIds(h) ==
    { t \in TimerIds : h.timers[t].st = "free" /\ h.intervalRef # t }

AllocAudio(h) == CHOOSE a \in FreeAudioIds(h) : \A b \in FreeAudioIds(h) : a <= b

AllocTimer(h) == CHOOSE t \in FreeTimerIds(h) : \A u \in FreeTimerIds(h) : t <= u

(* An element nothing refers to any more keeps only what it can still do: *)
(* settle its play() promise.                                              *)
Unreferenced(el) ==
    IF el.st = "aborted" THEN [st |-> "aborted", volume |-> 0, loop |-> FALSE] ELSE el

(* Elements and timers nothing refers to any more and that can no longer  *)
(* act are forgotten.                                                      *)
Forget(h) ==
    [h EXCEPT
       !.audios = [a \in AudioIds |->
                     IF a = h.audioRef THEN h.audios[a]
                     ELSE IF h.audios[a].st \in (Sounding \cup PromisePending)
                          THEN Unreferenced(h.audios[a])
                          ELSE FreeAudio],
       !.timers = [t \in TimerIds |->
                     IF t # h.intervalRef /\ h.timers[t].st # "pending"
                     THEN FreeTimer ELSE h.timers[t]]]

(* Ids are opaque handles: the element in audioRef and the timer in       *)
(* intervalRef are numbered 1 and the others follow in their order.       *)
Rank(live, ref, x) ==
    IF x = ref THEN 1
    ELSE (IF ref # Null THEN 1 ELSE 0)
         + Cardinality({ y \in live \ {ref} : y <= x })

Renumber(h) ==
    LET liveA == { a \in AudioIds : h.audios[a].st # "free" } \cup ({h.audioRef} \ {Null})
        liveT == { t \in TimerIds : h.timers[t].st # "free" } \cup ({h.intervalRef} \ {Null})
    IN  [h EXCEPT
           !.audios = [i \in AudioIds |->
                         IF \E a \in liveA : Rank(liveA, h.audioRef, a) = i
                         THEN h.audios[CHOOSE a \in liveA : Rank(liveA, h.audioRef, a) = i]
                         ELSE FreeAudio],
           !.audioRef = IF h.audioRef # Null THEN 1 ELSE Null,
           !.timers = [i \in TimerIds |->
                         IF \E t \in liveT : Rank(liveT, h.intervalRef, t) = i
                         THEN h.timers[CHOOSE t \in liveT : Rank(liveT, h.intervalRef, t) = i]
                         ELSE FreeTimer],
           !.intervalRef = IF h.intervalRef # Null THEN 1 ELSE Null]

Collect(h) == Renumber(Forget(h))

ClearInterval(h, t) ==
    IF t # Null /\ h.timers[t].st = "pending"
    THEN [h EXCEPT !.timers[t] = FreeTimer]
    ELSE h

-----------------------------------------------------------------------------
(* The hook *)

InitHook(p) ==
    [audioRef |-> Null, intervalRef |-> Null, isActiveRef |-> TRUE,
     isPlaying |-> FALSE, currentVolume |-> StoreVolume(p), unhandled |-> FALSE,
     audios |-> [a \in AudioIds |-> FreeAudio],
     timers |-> [t \in TimerIds |-> FreeTimer],
     randomCl |-> [vol |-> StoreVolume(p), loop |-> p.loop,
                   min |-> p.minInterval, max |-> p.maxInterval]]

(* what playSoundEffect of the last render closed over (useCallback with   *)
(* [soundUrl, currentVolume, loop]); a handler that calls it runs with     *)
(* this closure until React renders again, after the handler has returned  *)
PlayCl(h, p) == [vol |-> h.currentVolume, loop |-> p.loop]


(* playSoundEffect setting audio.volume to currentVolume as it is *)
playSoundEffectNoClamp(h, cl) ==
    LET h1 == IF h.audioRef # Null
              THEN [h EXCEPT !.audios[h.audioRef] = AudioPause(@)]
              ELSE h
        audio == AllocAudio(h1)
    IN  Collect([h1 EXCEPT
                   !.audios[audio] = [st |-> "starting",
                                      volume |-> cl.vol,
                                      loop |-> cl.loop],
                   !.audioRef = audio,
                   !.isPlaying = TRUE])

(* playSoundEffect starting the new element without pausing the held one *)
playSoundEffectNoPause(h, cl) ==
    LET audio == AllocAudio(h)
    IN  Collect([h EXCEPT
                   !.audios[audio] = [st |-> "starting",
                                      volume |-> Clamp(cl.vol),
                                      loop |-> cl.loop],
                   !.audioRef = audio,
                   !.isPlaying = TRUE])

playSoundEffect(h, cl) ==
    LET h1 == IF h.audioRef # Null
              THEN [h EXCEPT !.audios[h.audioRef] = AudioPause(@)]
              ELSE h
        audio == AllocAudio(h1)
    IN  Collect([h1 EXCEPT
                   !.audios[audio] = [st |-> "starting",
                                      volume |-> Clamp(cl.vol),
                                      loop |-> cl.loop],
                   !.audioRef = audio,
                   !.isPlaying = TRUE])


(* stopSoundEffect that pauses the element and forgets to clear audioRef *)
stopSoundEffectKeepsRef(h) ==
    IF h.audioRef # Null
    THEN Collect([h EXCEPT !.audios[h.audioRef] = AudioPause(@),
                           !.isPlaying = FALSE])
    ELSE h

stopSoundEffect(h) ==
    IF h.audioRef # Null
    THEN Collect([h EXCEPT !.audios[h.audioRef] = AudioPause(@),
                           !.audioRef = Null,
                           !.isPlaying = FALSE])
    ELSE h

adjustVolume(h, newVolume) ==
    LET clampedVolume == Clamp(newVolume)
        h1 == [h EXCEPT !.currentVolume = clampedVolume]
    IN  IF h1.audioRef # Null
        THEN [h1 EXCEPT !.audios[h1.audioRef].volume = clampedVolume]
        ELSE h1


(* adjustVolume returning the volume it was given, not the clamped one *)
adjustVolumeResultUnclamped(newVolume) == newVolume

adjustVolumeResult(newVolume) == Clamp(newVolume)


(* the random delay with the range taken as maxInterval + 1 *)
RandomDelayFullRange(r, minInterval, maxInterval) ==
    ((r * (maxInterval + 1)) \div RandDen) + minInterval

RandomDelay(r, minInterval, maxInterval) ==
    ((r * (maxInterval - minInterval + 1)) \div RandDen) + minInterval

scheduleNextPlay(h, cl, r) ==
    LET t == AllocTimer(h)
    IN  [h EXCEPT !.timers[t] = [st |-> "pending",
                                 delay |-> RandomDelay(r, cl.min, cl.max),
                                 cl |-> cl],
                  !.intervalRef = t]

startRandomPlayback(h, r) ==
    LET h1 == IF h.intervalRef # Null
              THEN [ClearInterval(h, h.intervalRef) EXCEPT !.intervalRef = Null]
              ELSE h
    IN  Collect(scheduleNextPlay(Collect(h1), h1.randomCl, r))

timerCallback(h, t, r) ==
    LET h1 == [h EXCEPT !.timers[t].st = "fired"]
    IN  IF h1.isActiveRef
        THEN Collect(scheduleNextPlay(playSoundEffect(h1, h1.timers[t].cl),
                                      h1.timers[t].cl, r))
        ELSE Collect(h1)

setupEffect(h, p) ==
    LET h1 == IF p.preload /\ h.audioRef = Null
              THEN LET a == AllocAudio(h)
                   IN  [h EXCEPT !.audios[a] = NewAudio, !.audioRef = a]
              ELSE h
        h2 == IF h1.audioRef # Null
              THEN [h1 EXCEPT !.audios[h1.audioRef].volume = Clamp(Volume(p))]
              ELSE h1
    IN  IF p.autoplay THEN playSoundEffect(h2, PlayCl(h2, p)) ELSE Collect(h2)


(* the setup effect's cleanup without its stopSoundEffect() call *)
setupCleanupNoStop(h) ==
    LET h2 == IF h.intervalRef # Null
              THEN [ClearInterval(h, h.intervalRef) EXCEPT !.intervalRef = Null]
              ELSE h
    IN  Collect([h2 EXCEPT !.isActiveRef = FALSE])

setupCleanup(h) ==
    LET h1 == stopSoundEffect(h)
        h2 == IF h1.intervalRef # Null
              THEN [ClearInterval(h1, h1.intervalRef) EXCEPT !.intervalRef = Null]
              ELSE h1
    IN  Collect([h2 EXCEPT !.isActiveRef = FALSE])

randomEffect(h, p, r) ==
    IF p.playRandomly /\ h.isActiveRef
    THEN startRandomPlayback(h, r)
    ELSE IF ~p.playRandomly /\ h.intervalRef # Null
         THEN Collect([ClearInterval(h, h.intervalRef) EXCEPT !.intervalRef = Null])
         ELSE h

randomCleanup(h) ==
    IF h.intervalRef # Null
    THEN Collect([ClearInterval(h, h.intervalRef) EXCEPT !.intervalRef = Null])
    ELSE h


(* a .catch handler that also drops the element, as the 'ended' listener does *)
onPlayRejectedClearsRef(h) == [h EXCEPT !.isPlaying = FALSE, !.audioRef = Null]

(* .catch of audio.play(): the handler logs and resets the flag; it does   *)
(* not throw, so the rejection is handled (unhandled stays as it was)     *)
onPlayRejected(h) == [h EXCEPT !.isPlaying = FALSE]

(* the 'ended' listener of the element audio *)
onEnded(h, audio) ==
    IF h.audioRef = audio
    THEN Collect([h EXCEPT !.audioRef = Null, !.isPlaying = FALSE])
    ELSE Collect(h)

(* What the browser does to the element a: its play() promise resolves   *)
(* and it plays; the promise rejects (the element was paused meanwhile, or *)
(* the browser refuses to play it) and the .catch handler runs; it plays   *)
(* to its end and its 'ended' listener runs.                               *)
playResolved(h, a) == [h EXCEPT !.audios[a].st = "playing"]

playRejected(h, a) ==
    Collect(onPlayRejected(
        [h EXCEPT !.audios[a].st = IF @ = "starting" THEN "failed" ELSE "paused"]))

ended(h, a) == onEnded([h EXCEPT !.audios[a].st = "ended"], a)

-----------------------------------------------------------------------------
(* Renders *)

SetupDeps(p) == <<p.soundUrl, Volume(p), p.preload, p.autoplay>>

RandomDeps(p) == <<p.playRandomly, p.minInterval, p.maxInterval>>

RandomCallbackDeps(p) == <<p.minInterval, p.maxInterval>>

(* useCallback keeps startRandomPlayback, and what it closed over, until  *)
(* minInterval or maxInterval changes                                      *)
Render(h, p, q) ==
    IF RandomCallbackDeps(q) # RandomCallbackDeps(p)
    THEN [h EXCEPT !.randomCl = [vol |-> h.currentVolume, loop |-> q.loop,
                                 min |-> q.minInterval, max |-> q.maxInterval]]
    ELSE h

(* the effects of a render with options q after one with options p:       *)
(* first the cleanups of the effects whose dependencies changed, then     *)
(* their bodies, each in the order of declaration                         *)
RunEffects(h, p, q, r) ==
    LET setup == SetupDeps(q) # SetupDeps(p)
        random == RandomDeps(q) # RandomDeps(p)
        h1 == IF setup THEN setupCleanup(h) ELSE h
        h2 == IF random THEN randomCleanup(h1) ELSE h1
        h3 == IF setup THEN setupEffect(h2, q) ELSE h2
    IN  IF random THEN randomEffect(h3, q, r) ELSE h3

(* audio elements the effects of that render create *)
AudioNeed(p, q) ==
    IF SetupDeps(q) # SetupDeps(p)
    THEN (IF q.preload THEN 1 ELSE 0) + (IF q.autoplay THEN 1 ELSE 0)
    ELSE 0

OptionChanges(p) ==
    ({ [p EXCEPT !.soundUrl = u] : u \in Urls }
     \cup { [p EXCEPT !.volume = v] : v \in OptionVolumes }
     \cup { [p EXCEPT !.preload = b] : b \in BOOLEAN }
     \cup { [p EXCEPT !.loop = b] : b \in BOOLEAN }
     \cup { [p EXCEPT !.playRandomly = b] : b \in BOOLEAN }
     \cup { [p EXCEPT !.minInterval = i] : i \in Intervals }
     \cup { [p EXCEPT !.maxInterval = i] : i \in Intervals }
     \cup { [p EXCEPT !.autoplay = b] : b \in BOOLEAN }
     \cup { [p EXCEPT !.settingsKey = ~p.settingsKey, !.entry = NoEntry] }
     \cup { [p EXCEPT !.entry = e] : e \in Entries }) \cap (PropsSet \ {p})

-----------------------------------------------------------------------------
(* The UserCard component *)

TruncLen == 20

MaxMessages == 2

Chars == <<"a", "b", "c">>

Content(n) == [i \in 1..n |-> Chars[(i % 3) + 1]]

Contents == { Content(n) : n \in {1, TruncLen, TruncLen + 1} }

UserIds == {"me", "u1", "u2"}

Messages ==
    { m \in [senderId : UserIds, receiverId : UserIds, content : Contents] :
        \/ <<m.senderId, m.receiverId>> \in {<<"me", "u1">>, <<"u1", "me">>}
        \/ <<m.senderId, m.receiverId>> = <<"u2", "me">> /\ Len(m.content) = 1 }

NoServer == [present |-> FALSE, owner |-> ""]

Servers == {NoServer, [present |-> TRUE, owner |-> "me"]}

NoUser == [userId |-> "", username |-> ""]

ActiveLists ==
    { << [userId |-> "u2", username |-> "bob"] >>,
      << [userId |-> "u2", username |-> "bob"], [userId |-> "u1", username |-> "ann"],
         [userId |-> "u1", username |-> "amy"] >> }

TypingLists == { <<>>, <<"u2">>, <<"u2", "u1">> }

Typing == <<"T", "y", "p", "i", "n", "g", ".", ".", ".">>

NoMessagesYet ==
    <<"N", "o", " ", "m", "e", "s", "s", "a", "g", "e", "s", " ", "y", "e", "t", ".">>

You == <<"Y", "o", "u", ":", " ">>

Ellipsis == <<".", ".", ".">>

(* String.prototype.slice(0, n) *)
Slice(str, n) == SubSeq(str, 1, Min(n, Len(str)))

(* Array.prototype.includes *)
Includes(list, x) == \E i \in 1..Len(list) : list[i] = x

(* Array.prototype.find by userId: the first such entry, NoUser if none *)
FindUser(list, userId) ==
    IF \E i \in 1..Len(list) : list[i].userId = userId
    THEN list[CHOOSE i \in 1..Len(list) :
                /\ list[i].userId = userId
                /\ \A j \in 1..(i - 1) : list[j].userId # userId]
    ELSE NoUser

Involves(message, userId) ==
    message.receiverId = userId \/ message.senderId = userId

NoMessage == [senderId |-> "", receiverId |-> "", content |-> <<>>, present |-> FALSE]

(* the scan taking the first message that involves the user (shift()) *)
lastMessageFirst(messages, userId) ==
    LET kept == SelectSeq(messages, LAMBDA m : Involves(m, userId))
    IN  IF kept = <<>> THEN NoMessage
        ELSE [senderId |-> kept[1].senderId,
              receiverId |-> kept[1].receiverId,
              content |-> kept[1].content,
              present |-> TRUE]

(* messages.map(...).filter(Boolean).pop() *)
lastMessage(messages, userId) ==
    LET kept == SelectSeq(messages, LAMBDA m : Involves(m, userId))
    IN  IF kept = <<>> THEN NoMessage
        ELSE [senderId |-> kept[Len(kept)].senderId,
              receiverId |-> kept[Len(kept)].receiverId,
              content |-> kept[Len(kept)].content,
              present |-> TRUE]


(* the preview truncating content of TruncLen characters too *)
MessagePreviewGe(message, server) ==
    (IF message.senderId = server.owner THEN You ELSE <<>>)
    \o (IF Len(message.content) >= TruncLen
        THEN Slice(message.content, TruncLen) \o Ellipsis
        ELSE message.content)

MessagePreview(message, server) ==
    (IF message.senderId = server.owner THEN You ELSE <<>>)
    \o (IF Len(message.content) > TruncLen
        THEN Slice(message.content, TruncLen) \o Ellipsis
        ELSE message.content)

(* the preview text with the last message taking priority over typing *)
PreviewTextMessageFirst(c) ==
    IF lastMessage(c.messages, c.userId).present
    THEN MessagePreview(lastMessage(c.messages, c.userId), c.server)
    ELSE IF Includes(c.typingUsers, c.userId) THEN Typing
         ELSE NoMessagesYet

PreviewText(c) ==
    IF Includes(c.typingUsers, c.userId) THEN Typing
    ELSE IF lastMessage(c.messages, c.userId).present
         THEN MessagePreview(lastMessage(c.messages, c.userId), c.server)
         ELSE NoMessagesYet

Usernames == { <<>>, <<"a", "b">> }

(* String.prototype.toUpperCase on one character *)
ToUpperCase(ch) ==
    CASE ch = "a" -> "A"
      [] ch = "b" -> "B"
      [] ch = "c" -> "C"
      [] OTHER -> ch

Nothing == [rendered |-> FALSE, threw |-> FALSE, initial |-> "", text |-> <<>>]

(* what a render of UserCard gives: null without a server; with one, the   *)
(* card with the username's initial and the preview text, and a TypeError  *)
(* from username[0].toUpperCase() when the username is empty               *)
UserCard(c) ==
    IF ~c.server.present THEN Nothing
    ELSE IF Len(c.username) = 0 THEN [Nothing EXCEPT !.threw = TRUE]
    ELSE [rendered |-> TRUE, threw |-> FALSE,
          initial |-> ToUpperCase(c.username[1]), text |-> PreviewText(c)]

SoundSettings == { [volume |-> VolUnit, isMuted |-> FALSE],
                   [volume |-> VolUnit, isMuted |-> TRUE] }

(* the options UserCard gives a sound whose settings entry is setting *)
CardSoundProps(setting) ==
    [soundUrl |-> 1, volume |-> IF setting.isMuted THEN 0 ELSE setting.volume,
     preload |-> TRUE, loop |-> FALSE,
     playRandomly |-> FALSE, minInterval |-> 5000, maxInterval |-> 15000,
     autoplay |-> FALSE, settingsKey |-> FALSE, entry |-> NoEntry]

(* a sound of the card after the card's first commit: the hook's effects,  *)
(* then the card's effect calling adjustVolume                             *)
MountedSound(setting) ==
    LET p == CardSoundProps(setting)
    IN  adjustVolume(randomEffect(setupEffect(InitHook(p), p), p, 0), p.volume)

(* a sound of the card after a commit in which its settings entry changed  *)
(* from old to new                                                         *)
ResetSound(h, old, new) ==
    LET p == CardSoundProps(old)
        q == CardSoundProps(new)
    IN  adjustVolume(RunEffects(Render(h, p, q), p, q, 0), q.volume)

(* the card leaves the tree: the cleanups of both sounds' effects run *)
RemoveCard(c, status) ==
    [c EXCEPT !.status = status,
              !.pressSound = randomCleanup(setupCleanup(@)),
              !.openSound = randomCleanup(setupCleanup(@))]

(* a render of the mounted card after a change: a render that throws takes *)
(* the card out of the tree for good                                       *)
Rerendered(c) ==
    IF c.status = "mounted" /\ UserCard(c).threw THEN RemoveCard(c, "crashed") ELSE c

(* the first render: a card whose render throws never mounts and its       *)
(* effects never run                                                       *)
MountCard(c) ==
    IF UserCard(c).threw
    THEN [c EXCEPT !.status = "crashed"]
    ELSE [c EXCEPT !.status = "mounted",
                   !.pressSound = MountedSound(c.settings.buttonSound),
                   !.openSound = MountedSound(c.settings.otherUISound)]

(* what is on screen for the card *)
Shown(c) == IF c.status = "mounted" THEN UserCard(c) ELSE Nothing

(* the store's setter *)
setCurrentlyChatting(c, user) == [c EXCEPT !.currentlyChatting = user]


(* the click handler without its early return for a user that is not found *)
handleSetCurrentlyChattingNoReturn(c) ==
    LET c1 == [c EXCEPT
                 !.pressSound = playSoundEffect(@, PlayCl(@, CardSoundProps(c.settings.buttonSound))),
                 !.calls = <<"playPressSound.play">>]
        user == FindUser(c.activeUsers, c.userId)
    IN  setCurrentlyChatting(
          [c1 EXCEPT
             !.openSound = playSoundEffect(@, PlayCl(@, CardSoundProps(c.settings.otherUISound))),
             !.calls = @ \o <<"playOpenSound.play", "setCurrentlyChatting">>],
          user)

handleSetCurrentlyChatting(c) ==
    LET c1 == [c EXCEPT
                 !.pressSound = playSoundEffect(@, PlayCl(@, CardSoundProps(c.settings.buttonSound))),
                 !.calls = <<"playPressSound.play">>]
        user == FindUser(c.activeUsers, c.userId)
    IN  IF user = NoUser THEN c1
        ELSE setCurrentlyChatting(
               [c1 EXCEPT
                  !.openSound = playSoundEffect(@, PlayCl(@, CardSoundProps(c.settings.otherUISound))),
                  !.calls = @ \o <<"playOpenSound.play", "setCurrentlyChatting">>],
               user)

NoCard == [userId |-> ""]

-----------------------------------------------------------------------------
(* Actions *)

NoCall == [name |-> "none", arg |-> 0, ret |-> 0]

Call(n) == [name |-> n, arg |-> 0, ret |-> 0]

(* Scenarios: the options the parent passes over the component's life and *)
(* the arguments it gives adjustVolume.                                    *)
(*   lifecycle  every switch of the hook and the url vary                  *)
(*   volume     the volume option, the settings key and the store entry,   *)
(*              autoplay and playRandomly vary                             *)
(*   random     playRandomly and the two intervals vary                    *)
LifecycleProps ==
    { p \in PropsSet : /\ p.volume = 1 /\ ~p.settingsKey
                       /\ p.minInterval = 1 /\ p.maxInterval = 2 }

LifecycleVolumes == {-1, VolUnit + 1}

VolumeProps ==
    { p \in PropsSet : /\ p.soundUrl = 1 /\ p.preload /\ ~p.loop
                       /\ p.minInterval = 1 /\ p.maxInterval = 1 }

VolumeVolumes == (-2)..(VolUnit + 2)

RandomProps ==
    { p \in PropsSet : /\ p.soundUrl = 1 /\ p.volume = 1 /\ ~p.settingsKey
                       /\ p.preload /\ ~p.loop /\ ~p.autoplay }

RandomVolumes == {1}

InitIn(Q) ==
    /\ props \in Q
    /\ hook = InitHook(props)
    /\ phase = "rendered"
    /\ lastOp = NoCall
    /\ adjusted = FALSE
    /\ card = NoCard

(* Math.random() is called only by scheduleNextPlay: a step that does not  *)
(* schedule a replay draws nothing                                         *)
Draws(scheduling) == IF scheduling THEN RandomDraws ELSE {0}

(* the effects of the first render *)
Mount ==
    /\ phase = "rendered"
    /\ \E r \in Draws(props.playRandomly) :
         hook' = randomEffect(setupEffect(hook, props), props, r)
    /\ phase' = "mounted"
    /\ lastOp' = NoCall
    /\ UNCHANGED <<props, adjusted, card>>

(* the parent renders the component with another option value, or the     *)
(* settings store changes                                                 *)
Rerender(Q) ==
    /\ phase = "mounted"
    /\ \E q \in OptionChanges(props) \cap Q :
       \E r \in Draws(q.playRandomly /\ RandomDeps(q) # RandomDeps(props)) :
         /\ Cardinality(FreeAudioIds(setupCleanup(hook))) >= AudioNeed(props, q)
         /\ hook' = RunEffects(Render(hook, props, q), props, q, r)
         /\ props' = q
    /\ lastOp' = NoCall
    /\ UNCHANGED <<phase, adjusted, card>>

Play ==
    /\ phase = "mounted"
    /\ FreeAudioIds(hook) # {}
    /\ hook' = playSoundEffect(hook, PlayCl(hook, props))
    /\ lastOp' = NoCall
    /\ UNCHANGED <<props, phase, adjusted, card>>

Stop ==
    /\ phase = "mounted"
    /\ hook' = stopSoundEffect(hook)
    /\ lastOp' = Call(IF lastOp.name \in {"stop", "stop2"} THEN "stop2" ELSE "stop")
    /\ UNCHANGED <<props, phase, adjusted, card>>

AdjustVolumeWith(v) ==
    /\ phase = "mounted"
    /\ hook' = adjustVolume(hook, v)
    /\ lastOp' = [name |-> "adjustVolume", arg |-> v, ret |-> adjustVolumeResult(v)]
    /\ adjusted' = TRUE
    /\ UNCHANGED <<props, phase, card>>

AdjustVolume(V) == \E v \in V : AdjustVolumeWith(v)

(* one event handler calling adjustVolume(v) and then play(): React has    *)
(* not rendered in between, so play is still the closure of the render     *)
(* before the call and creates the element at the volume of that render.   *)
(* (In every other order of two calls in one handler the second call reads *)
(* refs only, and the handler does what the two calls do one by one.)      *)
AdjustVolumeThenPlayWith(v) ==
    /\ phase = "mounted"
    /\ FreeAudioIds(hook) # {}
    /\ hook' = playSoundEffect(adjustVolume(hook, v), PlayCl(hook, props))
    /\ lastOp' = [name |-> "adjustVolumeThenPlay", arg |-> v,
                  ret |-> adjustVolumeResult(v)]
    /\ adjusted' = TRUE
    /\ UNCHANGED <<props, phase, card>>

AdjustVolumeThenPlay(V) == \E v \in V : AdjustVolumeThenPlayWith(v)

StartRandom ==
    /\ phase = "mounted"
    /\ \E r \in RandomDraws : hook' = startRandomPlayback(hook, r)
    /\ lastOp' = NoCall
    /\ UNCHANGED <<props, phase, adjusted, card>>

TimerFire ==
    /\ \E t \in TimerIds, r \in Draws(hook.isActiveRef) :
         /\ hook.timers[t].st = "pending"
         /\ hook.isActiveRef => FreeAudioIds(hook) # {}
         /\ hook' = timerCallback(hook, t, r)
    /\ lastOp' = NoCall
    /\ UNCHANGED <<props, phase, adjusted, card>>

PlayResolved ==
    /\ \E a \in AudioIds :
         /\ hook.audios[a].st = "starting"
         /\ hook' = playResolved(hook, a)
    /\ lastOp' = NoCall
    /\ UNCHANGED <<props, phase, adjusted, card>>

PlayRejected ==
    /\ \E a \in AudioIds :
         /\ hook.audios[a].st \in PromisePending
         /\ hook' = playRejected(hook, a)
    /\ lastOp' = NoCall
    /\ UNCHANGED <<props, phase, adjusted, card>>

Ended ==
    /\ \E a \in AudioIds :
         /\ hook.audios[a].st = "playing"
         /\ ~hook.audios[a].loop
         /\ hook' = ended(hook, a)
    /\ lastOp' = NoCall
    /\ UNCHANGED <<props, phase, adjusted, card>>

Unmount ==
    /\ phase = "mounted"
    /\ hook' = randomCleanup(setupCleanup(hook))
    /\ phase' = "unmounted"
    /\ lastOp' = NoCall
    /\ UNCHANGED <<props, adjusted, card>>

NextIn(Q, V) ==
    \/ Mount
    \/ Rerender(Q)
    \/ Play
    \/ Stop
    \/ AdjustVolume(V)
    \/ AdjustVolumeThenPlay(V)
    \/ StartRandom
    \/ TimerFire
    \/ PlayResolved
    \/ PlayRejected
    \/ Ended
    \/ Unmount

Init == InitIn(LifecycleProps)

Next == NextIn(LifecycleProps, LifecycleVolumes)

Spec == Init /\ [][Next]_vars

InitVolume == InitIn(VolumeProps)

NextVolume == NextIn(VolumeProps, VolumeVolumes)

SpecVolume == InitVolume /\ [][NextVolume]_vars

InitRandom == InitIn(RandomProps)

NextRandom == NextIn(RandomProps, RandomVolumes)

SpecRandom == InitRandom /\ [][NextRandom]_vars

-----------------------------------------------------------------------------
(* The UserCard scenario: one card with the store changing under it, the   *)
(* user clicking it and the browser delivering the events of its sounds.   *)

(*   preview  the messages, the typing users and the settings of the open  *)
(*            sound vary; no active user has the card's userId             *)
(*   click    the active users and the settings of both sounds vary, with  *)
(*            one message and two lists of typing users                    *)
Sounds == {"pressSound", "openSound"}

SettingsKeys == {"buttonSound", "otherUISound"}

Unmuted == [volume |-> VolUnit, isMuted |-> FALSE]

PreviewActiveLists ==
    { << [userId |-> "u2", username |-> "bob"] >>,
      << [userId |-> "u2", username |-> "bob"], [userId |-> "me", username |-> "eve"] >> }

PreviewKeys == {"otherUISound"}

ClickMessages == { m \in Messages : m.senderId = "me" /\ Len(m.content) = 1 }

ClickTypingLists == { <<>>, <<"u2", "u1">> }

InitCardIn(M, T, A, K) ==
    /\ \E c \in [userId : {"u1"}, username : Usernames, server : Servers,
                 messages : {<<>>} \cup { <<m>> : m \in M },
                 activeUsers : A, typingUsers : T,
                 currentlyChatting : {NoUser},
                 settings : [buttonSound : IF "buttonSound" \in K
                                           THEN SoundSettings ELSE {Unmuted},
                             otherUISound : IF "otherUISound" \in K
                                            THEN SoundSettings ELSE {Unmuted}],
                 status : {"rendering"},
                 pressSound : { InitHook(CardSoundProps(s)) : s \in SoundSettings },
                 openSound : { InitHook(CardSoundProps(s)) : s \in SoundSettings },
                 calls : {<<>>}] :
         /\ c.pressSound = InitHook(CardSoundProps(c.settings.buttonSound))
         /\ c.openSound = InitHook(CardSoundProps(c.settings.otherUISound))
         /\ card = MountCard(c)
    /\ props = CardSoundProps(Unmuted)
    /\ hook = InitHook(props)
    /\ phase = "rendered"
    /\ lastOp = NoCall
    /\ adjusted = FALSE

(* the card is there to be clicked only when it rendered *)
CardClick ==
    /\ Shown(card).rendered
    /\ FreeAudioIds(card.pressSound) # {}
    /\ FreeAudioIds(card.openSound) # {}
    /\ card' = handleSetCurrentlyChatting(card)
    /\ UNCHANGED <<props, hook, phase, lastOp, adjusted>>

(* the browser's events for the elements of the card's sounds, each in a   *)
(* task of its own                                                         *)
CardPlayResolved ==
    /\ \E s \in Sounds, a \in AudioIds :
         /\ card[s].audios[a].st = "starting"
         /\ card' = [card EXCEPT ![s] = playResolved(@, a), !.calls = <<>>]
    /\ UNCHANGED <<props, hook, phase, lastOp, adjusted>>

CardPlayRejected ==
    /\ \E s \in Sounds, a \in AudioIds :
         /\ card[s].audios[a].st \in PromisePending
         /\ card' = [card EXCEPT ![s] = playRejected(@, a), !.calls = <<>>]
    /\ UNCHANGED <<props, hook, phase, lastOp, adjusted>>

CardEnded ==
    /\ \E s \in Sounds, a \in AudioIds :
         /\ card[s].audios[a].st = "playing"
         /\ ~card[s].audios[a].loop
         /\ card' = [card EXCEPT ![s] = ended(@, a), !.calls = <<>>]
    /\ UNCHANGED <<props, hook, phase, lastOp, adjusted>>

StoreMessage(M) ==
    /\ Len(card.messages) < MaxMessages
    /\ \E m \in M :
         card' = Rerendered([card EXCEPT !.messages = Append(@, m), !.calls = <<>>])
    /\ UNCHANGED <<props, hook, phase, lastOp, adjusted>>

StoreTyping(T) ==
    /\ \E l \in T \ {card.typingUsers} :
         card' = Rerendered([card EXCEPT !.typingUsers = l, !.calls = <<>>])
    /\ UNCHANGED <<props, hook, phase, lastOp, adjusted>>

StoreActiveUsers(A) ==
    /\ \E l \in A \ {card.activeUsers} :
         card' = Rerendered([card EXCEPT !.activeUsers = l, !.calls = <<>>])
    /\ UNCHANGED <<props, hook, phase, lastOp, adjusted>>

StoreServer ==
    /\ \E v \in Servers \ {card.server} :
         card' = Rerendered([card EXCEPT !.server = v, !.calls = <<>>])
    /\ UNCHANGED <<props, hook, phase, lastOp, adjusted>>

(* the settings store changes the entry of one of the two sounds: the      *)
(* hook's effects re-run with the new volume option and the card's effect  *)
(* calls adjustVolume                                                      *)
StoreSettings(K) ==
    /\ \E k \in K :
         \E v \in SoundSettings \ {card.settings[k]} :
           LET s == IF k = "buttonSound" THEN "pressSound" ELSE "openSound"
               c1 == [card EXCEPT !.settings[k] = v, !.calls = <<>>]
           IN  IF card.status = "mounted"
               THEN /\ FreeAudioIds(setupCleanup(card[s])) # {}
                    /\ card' = [c1 EXCEPT ![s] = ResetSound(@, card.settings[k], v)]
               ELSE card' = c1
    /\ UNCHANGED <<props, hook, phase, lastOp, adjusted>>

(* the parent gives the card another username *)
CardUsername ==
    /\ card.status = "mounted"
    /\ \E u \in Usernames \ {card.username} :
         card' = Rerendered([card EXCEPT !.username = u, !.calls = <<>>])
    /\ UNCHANGED <<props, hook, phase, lastOp, adjusted>>

CardUnmount ==
    /\ card.status = "mounted"
    /\ card' = RemoveCard([card EXCEPT !.calls = <<>>], "unmounted")
    /\ UNCHANGED <<props, hook, phase, lastOp, adjusted>>

NextCardIn(M, T, A, K) ==
    \/ CardClick
    \/ CardPlayResolved
    \/ CardPlayRejected
    \/ CardEnded
    \/ StoreMessage(M)
    \/ StoreTyping(T)
    \/ StoreActiveUsers(A)
    \/ StoreServer
    \/ StoreSettings(K)
    \/ CardUsername
    \/ CardUnmount

InitCard == InitCardIn(Messages, TypingLists, PreviewActiveLists, PreviewKeys)

NextCard == NextCardIn(Messages, TypingLists, PreviewActiveLists, PreviewKeys)

SpecCard == InitCard /\ [][NextCard]_vars

InitClick == InitCardIn(ClickMessages, ClickTypingLists, ActiveLists, SettingsKeys)

NextClick == NextCardIn(ClickMessages, ClickTypingLists, ActiveLists, SettingsKeys)

SpecClick == InitClick /\ [][NextClick]_vars

-----------------------------------------------------------------------------
(* Properties *)

Held(h) == h.audioRef # Null

HeldAudio(h) == h.audios[h.audioRef]

SoundingIds(h) == { a \in AudioIds : h.audios[a].st \in Sounding }

PendingTimers(h) == { t \in TimerIds : h.timers[t].st = "pending" }

(* C1: adjustVolume(v) returns a value in [0,1]: v itself when 0 <= v <= 1, *)
(* 0 when v < 0 and 1 when v > 1.                                           *)
C1_AdjustVolumeReturnsClamped ==
    lastOp.name \in {"adjustVolume", "adjustVolumeThenPlay"} =>
      /\ lastOp.ret \in 0..VolUnit
      /\ (lastOp.arg \in 0..VolUnit => lastOp.ret = lastOp.arg)
      /\ (lastOp.arg < 0 => lastOp.ret = 0)
      /\ (lastOp.arg > VolUnit => lastOp.ret = VolUnit)

C1_Witness ==
    /\ lastOp.name = "adjustVolume"
    /\ lastOp.arg > VolUnit
    /\ lastOp.ret = VolUnit

(* C2: after stop(), and after a second stop() right behind it, isPlaying  *)
(* is false and the audio reference is null, and the second stop() changes *)
(* nothing of the hook.                                                    *)
C2_StopIdempotent ==
    /\ [](lastOp.name \in {"stop", "stop2"} =>
            ~hook.isPlaying /\ hook.audioRef = Null /\ ~hook.unhandled)
    /\ [][(lastOp.name \in {"stop", "stop2"} /\ lastOp'.name = "stop2") =>
            hook' = hook]_vars

C2_Witness ==
    /\ lastOp.name = "stop2"
    /\ \E a \in AudioIds : hook.audios[a].st = "aborted"

(* C3 as amended: for minInterval <= maxInterval, every delay passed to   *)
(* the replay timer lies within [minInterval, maxInterval].                *)
C3_DelayWithinIntervals ==
    \A t \in PendingTimers(hook) :
      hook.timers[t].cl.min <= hook.timers[t].cl.max =>
        /\ hook.timers[t].cl.min <= hook.timers[t].delay
        /\ hook.timers[t].delay <= hook.timers[t].cl.max

C3_Witness ==
    \E t \in PendingTimers(hook) :
      /\ hook.timers[t].cl.min < hook.timers[t].cl.max
      /\ hook.timers[t].delay = hook.timers[t].cl.max

(* C3 as claimed: for every pair of minInterval and maxInterval, every    *)
(* delay passed to the replay timer lies within [minInterval, maxInterval]. *)
C3_Original ==
    \A t \in PendingTimers(hook) :
      /\ hook.timers[t].cl.min <= hook.timers[t].delay
      /\ hook.timers[t].delay <= hook.timers[t].cl.max

(* C4: once the hook is torn down no audio is playing, the audio reference *)
(* is null, isPlaying is false and no replay timer is pending; as the      *)
(* torn-down hook stays torn down, no playback starts afterwards.          *)
C4_TeardownStopsEverything ==
    phase = "unmounted" =>
      /\ SoundingIds(hook) = {}
      /\ hook.audioRef = Null
      /\ ~hook.isPlaying
      /\ PendingTimers(hook) = {}

C4_Witness ==
    /\ phase = "unmounted"
    /\ props.playRandomly
    /\ \E a \in AudioIds : hook.audios[a].st = "aborted"

(* C5 as claimed: with playRandomly enabled and the hook mounted, a replay *)
(* timer is always pending.                                                *)
C5_Original ==
    (phase = "mounted" /\ props.playRandomly) => PendingTimers(hook) # {}

(* C6: a rejected play() promise is handled inside the hook, and all it    *)
(* changes is isPlaying, which becomes false: the references, the volume,  *)
(* the timers and the held element's settings stay, and nothing starts     *)
(* playing.                                                                *)
C6_RejectionOnlyResetsFlag ==
    [][PlayRejected =>
         /\ ~hook'.isPlaying
         /\ ~hook'.unhandled
         /\ [hook' EXCEPT !.isPlaying = hook.isPlaying, !.audios = hook.audios] = hook
         /\ Held(hook) => /\ HeldAudio(hook').volume = HeldAudio(hook).volume
                          /\ HeldAudio(hook').loop = HeldAudio(hook).loop
         /\ \A a \in AudioIds : hook'.audios[a].st = "playing" =>
              \E b \in AudioIds : hook.audios[b].st = "playing"
         /\ props' = props /\ phase' = phase]_vars

C6_Witness ==
    /\ Held(hook)
    /\ HeldAudio(hook).st = "failed"
    /\ ~hook.isPlaying

(* C7: the volume of every audio element the hook holds or plays lies in   *)
(* [0,1].                                                                  *)
C7_VolumeInRange ==
    \A a \in AudioIds :
      (a = hook.audioRef \/ hook.audios[a].st \in Sounding) =>
        hook.audios[a].volume \in 0..VolUnit

C7_Witness ==
    /\ hook.currentVolume > VolUnit
    /\ \E a \in SoundingIds(hook) : hook.audios[a].volume = VolUnit

(* C8 as claimed: right after adjustVolume(v) the held element has volume  *)
(* clamp(v), and from the first adjustVolume call on every element that is *)
(* playing has the volume of the last call, clamp(v).                      *)
C8_Original ==
    /\ (lastOp.name = "adjustVolume" /\ Held(hook)) =>
          HeldAudio(hook).volume = lastOp.ret
    /\ adjusted =>
          \A a \in SoundingIds(hook) : hook.audios[a].volume = hook.currentVolume

HasPrefix(str, prefix) ==
    Len(str) >= Len(prefix) /\ SubSeq(str, 1, Len(prefix)) = prefix

DropPrefix(str, n) == SubSeq(str, n + 1, Len(str))

TypingNow(c) == \E i \in 1..Len(c.typingUsers) : c.typingUsers[i] = c.userId

(* the preview of message m as C9 describes it is the text *)
IsPreviewOf(text, m, owner) ==
    LET mine == m.senderId = owner
        body == IF mine THEN DropPrefix(text, Len(You)) ELSE text
    IN  /\ mine <=> HasPrefix(text, You)
        /\ Len(m.content) <= TruncLen => body = m.content
        /\ Len(m.content) > TruncLen =>
             /\ Len(body) = TruncLen + Len(Ellipsis)
             /\ SubSeq(body, 1, TruncLen) = SubSeq(m.content, 1, TruncLen)
             /\ DropPrefix(body, TruncLen) = Ellipsis

(* C9 as claimed: for a card in the tree of a store with a server, when    *)
(* the user is not typing and a last message exists, the preview on screen *)
(* is the content itself if it has at most 20 characters and else its      *)
(* first 20 characters followed by "...", prefixed with "You: " exactly    *)
(* when the message's senderId is server.owner.                            *)
C9_Original ==
    LET m == lastMessage(card.messages, card.userId)
    IN  (/\ card.status # "unmounted" /\ card.server.present
         /\ ~TypingNow(card) /\ m.present) =>
          /\ Shown(card).rendered
          /\ IsPreviewOf(Shown(card).text, m, card.server.owner)

(* C9 for the cards whose render completes: the same, for every card that  *)
(* is on screen.                                                           *)
C9_PreviewTruncation ==
    LET m == lastMessage(card.messages, card.userId)
    IN  (Shown(card).rendered /\ ~TypingNow(card) /\ m.present) =>
          IsPreviewOf(Shown(card).text, m, card.server.owner)

C9_Witness ==
    LET m == lastMessage(card.messages, card.userId)
    IN  /\ Shown(card).rendered
        /\ ~TypingNow(card)
        /\ m.present
        /\ Len(m.content) > TruncLen
        /\ m.senderId = card.server.owner
        /\ Len(card.messages) = MaxMessages

(* C10: every click plays the press sound; it plays the open sound and     *)
(* calls setCurrentlyChatting with an activeUsers entry of the card's      *)
(* userId exactly when there is such an entry, and otherwise leaves the    *)
(* store's currently-chatting value and the open sound as they were.       *)
C10_ClickEffects ==
    [][CardClick =>
         LET found == \E i \in 1..Len(card.activeUsers) :
                        card.activeUsers[i].userId = card.userId
         IN  /\ card'.calls[1] = "playPressSound.play"
             /\ card'.pressSound.isPlaying
             /\ HeldAudio(card'.pressSound).st = "starting"
             /\ found =>
                  /\ card'.calls = <<"playPressSound.play", "playOpenSound.play",
                                     "setCurrentlyChatting">>
                  /\ HeldAudio(card'.openSound).st = "starting"
                  /\ card'.currentlyChatting.userId = card.userId
                  /\ \E i \in 1..Len(card.activeUsers) :
                       card.activeUsers[i] = card'.currentlyChatting
             /\ ~found =>
                  /\ card'.calls = <<"playPressSound.play">>
                  /\ card'.openSound = card.openSound
                  /\ card'.currentlyChatting = card.currentlyChatting]_vars

C10_Witness ==
    /\ card.calls = <<"playPressSound.play">>
    /\ card.currentlyChatting # NoUser
    /\ HeldAudio(card.pressSound).st = "starting"
    /\ \E a \in AudioIds : card.pressSound.audios[a].st = "aborted"
    /\ Held(card.openSound) /\ HeldAudio(card.openSound).st = "playing"

InvolvingIndexes(c) ==
    { i \in 1..Len(c.messages) : Involves(c.messages[i], c.userId) }

(* C11: the last message the card uses is the message at the greatest      *)
(* index of the store's messages list whose senderId or receiverId is the  *)
(* card's userId, and it is absent exactly when the list has no such       *)
(* message.                                                                *)
C11_LastMessageIsFinalInvolving ==
    LET m == lastMessage(card.messages, card.userId)
        idx == InvolvingIndexes(card)
    IN  /\ m.present <=> idx # {}
        /\ idx # {} =>
              LET k == CHOOSE i \in idx : \A j \in idx : j <= i
              IN  /\ m.senderId = card.messages[k].senderId
                  /\ m.receiverId = card.messages[k].receiverId
                  /\ m.content = card.messages[k].content

C11_Witness ==
    /\ Len(card.messages) = MaxMessages
    /\ InvolvingIndexes(card) = {1}
    /\ lastMessage(card.messages, card.userId).present
    /\ lastMessage(card.messages, card.userId).content = card.messages[1].content

(* the text C12 gives the card *)
PriorityText(c) ==
    IF TypingNow(c) THEN Typing
    ELSE IF InvolvingIndexes(c) = {} THEN NoMessagesYet
    ELSE MessagePreview(lastMessage(c.messages, c.userId), c.server)

(* C12 as claimed: a card in the tree renders nothing without a server,    *)
(* and with one its preview text is "Typing..." whenever typingUsers       *)
(* contains the card's userId, else "No messages yet." when no message     *)
(* involves the userId, else the preview of the last message.              *)
C12_Original ==
    card.status # "unmounted" =>
      /\ ~card.server.present => ~Shown(card).rendered
      /\ card.server.present =>
            Shown(card).rendered /\ Shown(card).text = PriorityText(card)

(* C12 for the cards whose render completes: without a server nothing is   *)
(* rendered, and the preview text of every card on screen follows the      *)
(* priority.                                                               *)
C12_PreviewPriority ==
    /\ ~card.server.present => ~Shown(card).rendered
    /\ Shown(card).rendered => Shown(card).text = PriorityText(card)

C12_Witness ==
    /\ Shown(card).rendered
    /\ Len(card.messages) = MaxMessages
    /\ TypingNow(card)
    /\ InvolvingIndexes(card) # {}
    /\ Shown(card).text = Typing

(* C13 as claimed: whenever an element the hook started is playing,        *)
(* isPlaying is true.                                                      *)
C13_Original ==
    (\E a \in AudioIds : hook.audios[a].st = "playing") => hook.isPlaying

(* C14: at most one element of the hook is playing or starting to play,    *)
(* and such an element is the one held in the audio reference.             *)
C14_OnlyHeldElementPlays ==
    /\ Cardinality(SoundingIds(hook)) <= 1
    /\ \A a \in SoundingIds(hook) : a = hook.audioRef

C14_Witness ==
    /\ Held(hook)
    /\ HeldAudio(hook).st = "playing"
    /\ \E a \in AudioIds : hook.audios[a].st = "aborted"
    /\ PendingTimers(hook) # {}

(* C15 as claimed: with a settings key whose store entry is muted, and     *)
(* before any adjustVolume call, every element that is playing or starting *)
(* to play has volume 0.                                                   *)
C15_Original ==
    (phase = "mounted" /\ IsMuted(props) /\ ~adjusted) =>
      \A a \in SoundingIds(hook) : hook.audios[a].volume = 0

StopKeepsSchedule ==
    Stop => /\ hook'.timers = hook.timers
            /\ hook'.intervalRef = hook.intervalRef
            /\ hook'.isActiveRef = hook.isActiveRef

AfterStop == lastOp.name \in {"stop", "stop2"}

Replayed(h) == Held(h) /\ HeldAudio(h).st = "starting" /\ h.isPlaying

(* C16, the part that holds: stop() changes no timer, leaves the timer     *)
(* reference and the active flag as they were, and a pending timer that    *)
(* fires after a stop() with the active flag set plays the sound and       *)
(* schedules the next replay.                                              *)
C16_StopKeepsSchedule ==
    [][/\ StopKeepsSchedule
       /\ (TimerFire /\ AfterStop /\ hook.isActiveRef) =>
             Replayed(hook') /\ PendingTimers(hook') # {}]_vars

C16_Witness ==
    /\ AfterStop
    /\ props.playRandomly
    /\ hook.isActiveRef
    /\ PendingTimers(hook) # {}
    /\ \E a \in AudioIds : hook.audios[a].st = "aborted"

(* C16 as claimed: stop() leaves the replay schedule unchanged, and with   *)
(* playRandomly enabled a pending timer that fires after a stop() plays    *)
(* the sound.                                                              *)
C16_Original ==
    [][/\ StopKeepsSchedule
       /\ (TimerFire /\ AfterStop /\ props.playRandomly) => Replayed(hook')]_vars

====
